---- MODULE Spec2Model ----
(***************************************************************************)
(* Alpha Miner of Task2.py / Task3.py: class AlphaAlgorithm.               *)
(* An event log is a sequence of traces, a trace a sequence of activity    *)
(* names (strings).  __init__ builds the footprint matrix, discover()      *)
(* computes X, the maximal pairs YL and the Petri net.                     *)
(***************************************************************************)
EXTENDS Integers, Sequences, FiniteSets, TLC

\* ---------------------------------------------------------------- bounds
MaxLen == 3
MaxTraces == 2
MaxRuns == 2
MaxPairs == 3

\* Activity names of the logs of Spec, of SpecNames and of SpecMaximal.
Activities == {"a", "b", "c", "d"}
NamedActivities == {"", "start", "end", "p_0"}
PairActivities == {"a", "b", "c"}

Range(s) == {s[i] : i \in DOMAIN s}
Traces(S) == UNION {[1..n -> S] : n \in 0..MaxLen}
Logs(S) == UNION {[1..n -> Traces(S)] : n \in 0..MaxTraces}
NonEmptySubsets(S) == (SUBSET S) \ {{}}

VARIABLES
    event_log,          \* self.event_log : List[List[str]]
    pc,                 \* "new", "constructed", "done", "IndexError"; "call"/"return" for a bare _find_maximal_pairs call
    unique_traces,      \* self.unique_traces : Counter of the traces
    footprint_matrix,   \* self.footprint_matrix : dict of dicts
    X,                  \* discover's X (step 4)
    YL,                 \* discover's YL (step 5)
    net,                \* the PetriNet discover returns
    results             \* the nets returned by the runs so far, oldest first

vars == <<event_log, pc, unique_traces, footprint_matrix, X, YL, net, results>>

\* ------------------------------------------------------------- PetriNet
PetriNet(places, transitions, arcs) ==
    [places |-> places, transitions |-> transitions, arcs |-> arcs]

NoNet == PetriNet({}, {}, {})

\* ------------------------------------------------- _get_unique_traces
\* Counter(tuple(trace) for trace in self.event_log)
_get_unique_traces(log) ==
    [t \in Range(log) |-> Cardinality({i \in DOMAIN log : log[i] = t})]

\* -------------------------------------------- _build_footprint_matrix
\* direct_succession[k].add(v) on a defaultdict(set)
ds_add(ds, k, v) ==
    IF k \in DOMAIN ds THEN [ds EXCEPT ![k] = @ \cup {v}]
    ELSE (k :> {v}) @@ ds

\* for i in range(len(trace) - 1): direct_succession[trace[i]].add(trace[i + 1])
\* (i counts from 1 here, the trace's first position)
RECURSIVE ds_of_trace(_, _, _)
ds_of_trace(ds, trace, i) ==
    IF i > Len(trace) - 1 THEN ds
    ELSE ds_of_trace(ds_add(ds, trace[i], trace[i + 1]), trace, i + 1)

\* for trace in self.event_log: ... (from trace number t on)
RECURSIVE ds_of_log(_, _, _)
ds_of_log(ds, log, t) ==
    IF t > Len(log) THEN ds
    ELSE ds_of_log(ds_of_trace(ds, log[t], 1), log, t + 1)

direct_succession(log) == ds_of_log(<<>>, log, 1)

\* activities.update(trace) for every trace
activities(log) == UNION {Range(log[t]) : t \in DOMAIN log}

\* relation without the inner test of line 48: a pair seen in both directions is "->"
relation_no_parallel(ds, a1, a2) ==
    IF a1 \in DOMAIN ds /\ a2 \in ds[a1] THEN "->"
    ELSE IF a2 \in DOMAIN ds /\ a1 \in ds[a2] THEN "<-" ELSE "#"

\* relation without the elif of line 52: "<-" is never assigned
relation_no_inverse(ds, a1, a2) ==
    IF a1 \in DOMAIN ds /\ a2 \in ds[a1]
    THEN IF a2 \in DOMAIN ds /\ a1 \in ds[a2] THEN "||" ELSE "->"
    ELSE "#"

\* the if/elif/else of lines 47-55
relation(ds, a1, a2) ==
    IF a1 \in DOMAIN ds /\ a2 \in ds[a1]
    THEN IF a2 \in DOMAIN ds /\ a1 \in ds[a2] THEN "||" ELSE "->"
    ELSE IF a2 \in DOMAIN ds /\ a1 \in ds[a2] THEN "<-" ELSE "#"

_build_footprint_matrix(log) ==
    LET ds == direct_succession(log)
        acts == activities(log)
    IN  [a1 \in acts |-> [a2 \in acts |-> relation(ds, a1, a2)]]

\* ---------------------------------------------------- _check_conditions
\* _check_conditions comparing only distinct activities within A and within B
_check_conditions_skip_self(fm, A, B) ==
    /\ \A a1 \in A, a2 \in A : a1 # a2 => fm[a1][a2] = "#"
    /\ \A b1 \in B, b2 \in B : b1 # b2 => fm[b1][b2] = "#"
    /\ \A a \in A, b \in B : fm[a][b] = "->"

\* for a1, a2 in itertools.product(A, A) ... return False; likewise B, B and A, B
_check_conditions(fm, A, B) ==
    /\ \A a1 \in A, a2 \in A : fm[a1][a2] = "#"
    /\ \A b1 \in B, b2 \in B : fm[b1][b2] = "#"
    /\ \A a \in A, b \in B : fm[a][b] = "->"

\* ------------------------------------------------- _find_maximal_pairs
\* _find_maximal_pairs without "if pair1 == pair2: continue"
_find_maximal_pairs_no_skip(Xs) ==
    {pair1 \in Xs :
        ~ \E pair2 \in Xs :
            /\ pair1[1] \subseteq pair2[1]
            /\ pair1[2] \subseteq pair2[2]}

\* _find_maximal_pairs with "or" for the "and" of line 140
_find_maximal_pairs_either(Xs) ==
    {pair1 \in Xs :
        ~ \E pair2 \in Xs :
            /\ pair1 # pair2
            /\ \/ pair1[1] \subseteq pair2[1]
               \/ pair1[2] \subseteq pair2[2]}

\* pair1 stays when no other pair2 of X has A1 <= A2 and B1 <= B2
_find_maximal_pairs(Xs) ==
    {pair1 \in Xs :
        ~ \E pair2 \in Xs :
            /\ pair1 # pair2
            /\ pair1[1] \subseteq pair2[1]
            /\ pair1[2] \subseteq pair2[2]}

\* -------------------------------------------------------------- discover
\* itertools.combinations(T, size): the subsets of T with size elements
combinations(T, size) == {c \in SUBSET T : Cardinality(c) = size}

\* step 4: the four nested loops over size_a, size_b, A, B
step4_X(T, fm) ==
    LET n == Cardinality(T)
        comb == [size \in 1..n |-> combinations(T, size)]
    IN  UNION {
            {<<A, B>> : <<A, B>> \in
                {p \in comb[s[1]] \X comb[s[2]] : _check_conditions(fm, p[1], p[2])}}
            : s \in (1..n) \X (1..n)}

\* f"p_{i}"
place_name(i) == "p_" \o ToString(i)

\* The orders in which "for i, (A, B) in enumerate(YL)" may visit the set YL:
\* a set's iteration order follows the hashes of its elements, and str hashes
\* change from one interpreter run to the next.
enumerations(S) ==
    {f \in [1..Cardinality(S) -> S] : \A i, j \in DOMAIN f : f[i] = f[j] => i = j}

\* steps 6 and 7 for the enumeration order `order` of YL (order[i + 1] has index i)
step6_places(Y) == {place_name(i) : i \in 0..(Cardinality(Y) - 1)} \cup {"start", "end"}

\* step 7 numbering the places from 1, as enumerate(YL, 1) would
step7_arcs_from_one(TI, TO, order) ==
    {<<"start", t>> : t \in TI}
    \cup {<<t, "end">> : t \in TO}
    \cup UNION {
            {<<a, place_name(i)>> : a \in order[i][1]}
            \cup {<<place_name(i), b>> : b \in order[i][2]}
            : i \in DOMAIN order}

step7_arcs(TI, TO, order) ==
    {<<"start", t>> : t \in TI}
    \cup {<<t, "end">> : t \in TO}
    \cup UNION {
            {<<a, place_name(i - 1)>> : a \in order[i][1]}
            \cup {<<place_name(i - 1), b>> : b \in order[i][2]}
            : i \in DOMAIN order}

step1_T(log) == UNION {Range(log[t]) : t \in DOMAIN log}
\* step 2 reading the first trace only
step2_TI_first_trace(log) == IF Len(log) = 0 THEN {} ELSE {log[1][1]}

step2_TI(log) == {log[t][1] : t \in DOMAIN log}
\* step 3 reading trace[0] for trace[-1]
step3_TO_first(log) == {log[t][1] : t \in DOMAIN log}

step3_TO(log) == {log[t][Len(log[t])] : t \in DOMAIN log}

\* trace[0] / trace[-1] of an empty trace raises IndexError in step 2
raises_IndexError(log) == \E t \in DOMAIN log : Len(log[t]) = 0

\* ---------------------------------------------------------------- actions
InitOn(S) ==
    /\ event_log \in Logs(S)
    /\ pc = "new"
    /\ unique_traces = <<>>
    /\ footprint_matrix = <<>>
    /\ X = {}
    /\ YL = {}
    /\ net = NoNet
    /\ results = <<>>

Init == InitOn(Activities)

\* AlphaAlgorithm(event_log)
Construct ==
    /\ pc = "new"
    /\ unique_traces' = _get_unique_traces(event_log)
    /\ footprint_matrix' = _build_footprint_matrix(event_log)
    /\ pc' = "constructed"
    /\ UNCHANGED <<event_log, X, YL, net, results>>

\* alpha.discover() on an event log with an empty trace: step 2 raises
DiscoverRaises ==
    /\ pc = "constructed"
    /\ raises_IndexError(event_log)
    /\ pc' = "IndexError"
    /\ UNCHANGED <<event_log, unique_traces, footprint_matrix, X, YL, net, results>>

\* alpha.discover() returning a net
DiscoverReturns ==
    /\ pc = "constructed"
    /\ ~ raises_IndexError(event_log)
    /\ LET T == step1_T(event_log)
           TI == step2_TI(event_log)
           TO == step3_TO(event_log)
           Xs == step4_X(T, footprint_matrix)
           Ys == _find_maximal_pairs(Xs)
       IN  /\ X' = Xs
           /\ YL' = Ys
           /\ \E order \in enumerations(Ys) :
                 net' = PetriNet(step6_places(Ys), T, step7_arcs(TI, TO, order))
    /\ results' = Append(results, net')
    /\ pc' = "done"
    /\ UNCHANGED <<event_log, unique_traces, footprint_matrix>>

Discover == DiscoverRaises \/ DiscoverReturns

\* main() run again on the same event log, in a new interpreter
NewRun ==
    /\ pc = "done"
    /\ Len(results) < MaxRuns
    /\ pc' = "new"
    /\ unique_traces' = <<>>
    /\ footprint_matrix' = <<>>
    /\ X' = {}
    /\ YL' = {}
    /\ net' = NoNet
    /\ UNCHANGED <<event_log, results>>

Next == Construct \/ Discover

Spec == Init /\ [][Next]_vars

\* The same program run MaxRuns times on one event log
NextRuns == Construct \/ Discover \/ NewRun

SpecRuns == Init /\ [][NextRuns]_vars

\* Logs whose activity names collide with place names or are blank
InitNames == InitOn(NamedActivities)

SpecNames == InitNames /\ [][Next]_vars

\* ------------------------------------- a bare call of _find_maximal_pairs
\* Task2.py main() calls alpha._find_maximal_pairs(X) on a set it built itself;
\* the method reads nothing but its argument.
CandidatePairs == NonEmptySubsets(PairActivities) \X NonEmptySubsets(PairActivities)

InitMaximal ==
    /\ X \in UNION {{Range(f) : f \in [1..n -> CandidatePairs]} : n \in 0..MaxPairs}
    /\ pc = "call"
    /\ event_log = <<>>
    /\ unique_traces = <<>>
    /\ footprint_matrix = <<>>
    /\ YL = {}
    /\ net = NoNet
    /\ results = <<>>

FindMaximalPairsCall ==
    /\ pc = "call"
    /\ YL' = _find_maximal_pairs(X)
    /\ pc' = "return"
    /\ UNCHANGED <<event_log, unique_traces, footprint_matrix, X, net, results>>

NextMaximal == FindMaximalPairsCall

SpecMaximal == InitMaximal /\ [][NextMaximal]_vars

\* ================================================================ claims
\* The alphabet of a log and its directly-follows observations, read off the log.
Alphabet(log) == {x \in Activities \cup NamedActivities :
                    \E t \in DOMAIN log : \E i \in DOMAIN log[t] : log[t][i] = x}

Follows(log, x, y) ==
    \E t \in DOMAIN log : \E i \in 1..(Len(log[t]) - 1) :
        log[t][i] = x /\ log[t][i + 1] = y

Built == pc \in {"constructed", "done", "IndexError"}

Dominates(q, p) == p[1] \subseteq q[1] /\ p[2] \subseteq q[2]

\* C1: X of step 4 is exactly the set of pairs (A, B) of non-empty subsets of
\* the alphabet with every ordered pair within A (self-pairs included) CHOICE,
\* every ordered pair within B CHOICE and every (a in A, b in B) CAUSALITY.
IsCandidatePair(A, B) ==
    /\ \A a1 \in A : \A a2 \in A : footprint_matrix[a1][a2] = "#"
    /\ \A b1 \in B : \A b2 \in B : footprint_matrix[b1][b2] = "#"
    /\ \A a \in A : \A b \in B : footprint_matrix[a][b] = "->"

C1_XIsExactlyTheCandidatePairs ==
    pc = "done" =>
        LET subsets == NonEmptySubsets(Alphabet(event_log))
        IN  /\ X \subseteq subsets \X subsets
            /\ \A A \in subsets : \A B \in subsets :
                   (<<A, B>> \in X) <=> IsCandidatePair(A, B)

\* a pair that meets the conditions on A and on (A, B) is kept out of X by a
\* non-CHOICE pair within B
C1_Witness ==
    /\ pc = "done"
    /\ \E a, b1, b2 \in Alphabet(event_log) :
           /\ <<{a}, {b1}>> \in X
           /\ <<{a}, {b2}>> \in X
           /\ footprint_matrix[b1][b2] # "#"
           /\ <<{a}, {b1, b2}>> \notin X

\* C2: Y = _find_maximal_pairs(X) is a subset of X holding a pair exactly when
\* no other pair of X dominates it componentwise; no two distinct elements of Y
\* dominate each other.
C2_MaximalPairsAntichain ==
    pc = "return" =>
        /\ YL \subseteq X
        /\ \A p \in X : (p \in YL) <=> (\A q \in X : q # p => ~ Dominates(q, p))
        /\ \A p \in YL : \A q \in YL : p # q => ~ Dominates(q, p)

C2_Witness ==
    /\ pc = "return"
    /\ Cardinality(YL) = 2
    /\ Cardinality(X) = 3

\* C3: for every ordered pair of activities, self-pairs included, the matrix
\* holds "||" when each directly follows the other somewhere, "->" when only a2
\* follows a1, "<-" when only a1 follows a2, "#" when neither is observed.
C3_FootprintRule ==
    Built =>
        \A a1 \in Alphabet(event_log) : \A a2 \in Alphabet(event_log) :
            footprint_matrix[a1][a2] =
                CASE Follows(event_log, a1, a2) /\ Follows(event_log, a2, a1) -> "||"
                  [] Follows(event_log, a1, a2) /\ ~ Follows(event_log, a2, a1) -> "->"
                  [] ~ Follows(event_log, a1, a2) /\ Follows(event_log, a2, a1) -> "<-"
                  [] OTHER -> "#"

\* an activity follows itself and is PARALLEL with itself, next to a causal pair
C3_Witness ==
    /\ pc = "constructed"
    /\ \E a, b \in Alphabet(event_log) :
           /\ Follows(event_log, a, a)
           /\ footprint_matrix[a][a] = "||"
           /\ a # b
           /\ footprint_matrix[a][b] = "->"

\* C4: the footprint matrix is total over the alphabet, every entry is one of
\* the four relations, and -> mirrors <-, || mirrors ||, # mirrors #.
C4_FootprintTotalAndConsistent ==
    Built =>
        LET alphabet == Alphabet(event_log)
        IN  /\ DOMAIN footprint_matrix = alphabet
            /\ \A a \in alphabet :
                   /\ DOMAIN footprint_matrix[a] = alphabet
                   /\ \A b \in alphabet :
                          /\ footprint_matrix[a][b] \in {"->", "<-", "||", "#"}
                          /\ footprint_matrix[a][b] = "->" <=> footprint_matrix[b][a] = "<-"
                          /\ footprint_matrix[a][b] = "||" <=> footprint_matrix[b][a] = "||"
                          /\ footprint_matrix[a][b] = "#" <=> footprint_matrix[b][a] = "#"

\* a matrix holding a causal pair with its mirror, a parallel pair and a choice pair
C4_Witness ==
    /\ pc = "constructed"
    /\ \E a, b, c, d \in Alphabet(event_log) :
           /\ footprint_matrix[a][b] = "->"
           /\ footprint_matrix[b][a] = "<-"
           /\ c # d
           /\ footprint_matrix[c][d] = "||"
           /\ footprint_matrix[a][d] = "#"

\* C5: the returned net has the alphabet as transitions, the places start and
\* end plus one place per element of Y (a one-to-one correspondence), and as
\* arcs exactly start->t for t in TI, t->end for t in TO, and a->p, p->b for
\* each (A, B) of Y with its place p, a in A, b in B.
FirstActivities(log) == {x \in Alphabet(log) : \E t \in DOMAIN log : Len(log[t]) > 0 /\ Head(log[t]) = x}

LastActivities(log) ==
    {x \in Alphabet(log) : \E t \in DOMAIN log : Len(log[t]) > 0 /\ log[t][Len(log[t])] = x}

C5_NetStructure ==
    pc = "done" =>
        LET internal == net.places \ {"start", "end"}
        IN  /\ net.transitions = Alphabet(event_log)
            /\ {"start", "end"} \subseteq net.places
            /\ Cardinality(internal) = Cardinality(YL)
            /\ \E place_of \in [YL -> internal] :
                   /\ \A p \in YL : \A q \in YL : place_of[p] = place_of[q] => p = q
                   /\ net.arcs =
                          {<<"start", t>> : t \in FirstActivities(event_log)}
                          \cup {<<t, "end">> : t \in LastActivities(event_log)}
                          \cup UNION {{<<a, place_of[p]>> : a \in p[1]} : p \in YL}
                          \cup UNION {{<<place_of[p], b>> : b \in p[2]} : p \in YL}

\* a net with two internal places, one of them with two output transitions
C5_Witness ==
    /\ pc = "done"
    /\ Cardinality(YL) = 2
    /\ \E p \in YL : Cardinality(p[2]) = 2
    /\ Cardinality(net.places) = 4

\* C6: two discover runs on the same event log return identical nets: a
\* maximal pair gets the same place name, with the same arcs, in both runs.
C6_SameNetInEveryRun ==
    \A i \in DOMAIN results : \A j \in DOMAIN results : results[i] = results[j]

\* C7: an empty log, a log with a trace of zero length and a log with a blank
\* activity token are rejected before the footprint matrix is built, and no
\* net is ever returned for them.
InvalidInput(log) ==
    \/ Len(log) = 0
    \/ \E t \in DOMAIN log : Len(log[t]) = 0
    \/ \E t \in DOMAIN log : \E i \in DOMAIN log[t] : log[t][i] = ""

C7_InvalidInputRejectedFirst ==
    InvalidInput(event_log) =>
        /\ pc \in {"new", "InvalidInputError"}
        /\ footprint_matrix = <<>>
        /\ net = NoNet
        /\ results = <<>>

\* C8: when the estimate 2^n * 2^n for the alphabet size n exceeds the ceiling
\* k, discover stops before step 4: no pair is tested, no net is returned.
\* The ceilings the claim is checked for:
Ceilings == {15, 63}

EstimatedEnumerations(n) == (2 ^ n) * (2 ^ n)

C8_CeilingEnforced ==
    \A k \in Ceilings :
        EstimatedEnumerations(Cardinality(Alphabet(event_log))) > k =>
            /\ pc # "done"
            /\ X = {}
            /\ net = NoNet

\* C9: the returned net is bipartite: no name is both a place and a
\* transition, and every arc joins a place and a transition.
C9_Bipartite ==
    pc = "done" =>
        /\ net.places \cap net.transitions = {}
        /\ \A arc \in net.arcs :
               \/ arc[1] \in net.places /\ arc[2] \in net.transitions
               \/ arc[1] \in net.transitions /\ arc[2] \in net.places
        /\ \A arc \in net.arcs :
               /\ ~ (arc[1] \in net.places /\ arc[2] \in net.places)
               /\ ~ (arc[1] \in net.transitions /\ arc[2] \in net.transitions)

\* C10: a log with the same set of distinct traces as event_log, whatever the
\* order and the number of occurrences of each trace, yields the same footprint
\* matrix, X, Y and net, the places matched by their (A, B) pair.
\* The logs of up to MaxTraces + 1 traces with the same distinct traces:
SameDistinctTraces(log) ==
    {other \in UNION {[1..n -> Range(log)] : n \in 0..(MaxTraces + 1)} :
        Range(other) = Range(log)}

\* a net with each internal place replaced by its (inputs, outputs) pair
ByContent(n) ==
    [transitions |-> n.transitions,
     initial |-> {arc[2] : arc \in {e \in n.arcs : e[1] = "start"}},
     final |-> {arc[1] : arc \in {e \in n.arcs : e[2] = "end"}},
     internal |-> {<<{e[1] : e \in {e \in n.arcs : e[2] = p}},
                     {e[2] : e \in {e \in n.arcs : e[1] = p}}>> :
                        p \in n.places \ {"start", "end"}}]

\* what construction and discover yield for a log
OutcomeOf(log) ==
    LET fm == _build_footprint_matrix(log)
        Xs == step4_X(step1_T(log), fm)
        Ys == _find_maximal_pairs(Xs)
        order == CHOOSE o \in enumerations(Ys) : TRUE
    IN  IF raises_IndexError(log)
        THEN [pc |-> "IndexError", fm |-> fm, X |-> {}, Y |-> {}, net |-> ByContent(NoNet)]
        ELSE [pc |-> "done", fm |-> fm, X |-> Xs, Y |-> Ys,
              net |-> ByContent(PetriNet(step6_places(Ys), step1_T(log),
                                         step7_arcs(step2_TI(log), step3_TO(log), order)))]

C10_FrequencyAgnostic ==
    pc \in {"done", "IndexError"} =>
        \A other \in SameDistinctTraces(event_log) :
            OutcomeOf(other) =
                [pc |-> pc, fm |-> footprint_matrix, X |-> X, Y |-> YL, net |-> ByContent(net)]

\* a log of two distinct traces with different first and last activities,
\* whose net has internal places
C10_Witness ==
    /\ pc = "done"
    /\ Len(event_log) = 2
    /\ event_log[1] # event_log[2]
    /\ Head(event_log[1]) # Head(event_log[2])
    /\ event_log[1][Len(event_log[1])] # event_log[2][Len(event_log[2])]
    /\ Cardinality(YL) >= 2
    /\ Cardinality(SameDistinctTraces(event_log)) > 2

\* C11: for the log [[a,b,d],[a,c,d]], X holds ({a},{b,c}) and ({b,c},{d}),
\* both are in Y, and the returned net has the transitions {a,b,c,d}, the arcs
\* start->a and d->end, and exactly two internal places.
XorLog == <<<<"a", "b", "d">>, <<"a", "c", "d">>>>

C11_ClassicXor ==
    (event_log = XorLog /\ pc = "done") =>
        /\ <<{"a"}, {"b", "c"}>> \in X
        /\ <<{"b", "c"}, {"d"}>> \in X
        /\ <<{"a"}, {"b", "c"}>> \in YL
        /\ <<{"b", "c"}, {"d"}>> \in YL
        /\ net.transitions = {"a", "b", "c", "d"}
        /\ <<"start", "a">> \in net.arcs
        /\ <<"d", "end">> \in net.arcs
        /\ Cardinality(net.places \ {"start", "end"}) = 2

C11_Witness ==
    /\ event_log = XorLog
    /\ pc = "done"
    /\ Cardinality(X) = 6
    /\ Cardinality(YL) = 2

\* C12 as amended: for a log of one trace of pairwise distinct activities, Y is
\* the set of the pairs ({t[i]}, {t[i+1]}) of consecutive activities (empty for
\* a trace of length 1 only), the net has start, end and one internal place per
\* such pair, and its arcs are start->first, last->end and t[i]->p, p->t[i+1]
\* for the place p of each pair.
SinglePath(log) ==
    /\ Len(log) = 1
    /\ Len(log[1]) >= 1
    /\ \A i \in DOMAIN log[1] : \A j \in DOMAIN log[1] : log[1][i] = log[1][j] => i = j

C12_SinglePathNet ==
    (SinglePath(event_log) /\ pc = "done") =>
        LET t == event_log[1]
            n == Len(t)
            internal == net.places \ {"start", "end"}
        IN  /\ YL = {<<{t[i]}, {t[i + 1]}>> : i \in 1..(n - 1)}
            /\ (YL = {}) <=> (n = 1)
            /\ {"start", "end"} \subseteq net.places
            /\ Cardinality(internal) = n - 1
            /\ {arc \in net.arcs : arc[1] = "start" \/ arc[2] = "end"}
                   = {<<"start", t[1]>>, <<t[n], "end">>}
            /\ Cardinality(net.arcs) = 2 * n
            /\ \A i \in 1..(n - 1) : \E p \in internal :
                   <<t[i], p>> \in net.arcs /\ <<p, t[i + 1]>> \in net.arcs
            /\ n = 1 => net = PetriNet({"start", "end"}, {t[1]},
                                       {<<"start", t[1]>>, <<t[1], "end">>})

\* a single path of three activities, with its two internal places
C12_Witness ==
    /\ SinglePath(event_log)
    /\ pc = "done"
    /\ Len(event_log[1]) = 3
    /\ Cardinality(net.places) = 4

\* C12 as stated: for every single-path log Y is empty and the net has only
\* the places start and end and the arcs start->first, last->end.
C12_SinglePathNetIsBare ==
    (SinglePath(event_log) /\ pc = "done") =>
        /\ YL = {}
        /\ net.places = {"start", "end"}
        /\ net.arcs = {<<"start", event_log[1][1]>>,
                       <<event_log[1][Len(event_log[1])], "end">>}

====
